---------------------------- MODULE Spec2Model ----------------------------
(***************************************************************************)
(* A model of the pepper web server shell (github.com/iktech/pepper):      *)
(* startup (CreateService / requestHandler), the middleware chain          *)
(* Tracing(Logging(Service)) with the loggingResponseWriter, the           *)
(* dispatcher Service.ServeHTTP, the error-page resolver                   *)
(* GetErrorPageContent and the static probe staticFileExists.              *)
(*                                                                         *)
(* Text that the code converts (paths, file names, configuration keys) is  *)
(* a sequence of tokens, so that TrimPrefix, HasSuffix, HasPrefix and Atoi *)
(* are computed; text the code only copies is a TLA+ string.               *)
(***************************************************************************)
EXTENDS Integers, Sequences, FiniteSets, TLC

VARIABLES
    phase,            \* "boot" | "errorPages" | "serving" | "responded" | "exited",
                      \* or "handling" | "returned" for the writer on its own
    useEmbedded,      \* viper "http.content.useEmbedded"
    http_redirects,   \* viper "http.redirects": key -> [hasCode, code, location]
    http_errorPages,  \* viper "http.errorPages": key -> file name
    customize,        \* the embedding application's customization function
    pending,          \* keys of http.errorPages the startup loop has not visited
    ErrorPages,       \* status code -> ErrorPageDefinition
    redirects,        \* Service.redirects
    routerMap,        \* Service.routerMap
    roots,            \* the asset roots: staticFiles, templates, Service.staticHandler
    req,              \* the request last dispatched
    x,                \* what dispatching it did (writer, transport, events)
    clock,            \* time.Now().UnixNano() as nextRequestID reads it
    arrived,          \* the ids generated for concurrent arrivals, in order
    passwordFile,     \* the file viper "http.password.file" names
    bah,              \* the BasicAuthHandler of /metrics
    gate              \* the requests to /metrics: where each is in BasicAuth's handler

vars == <<phase, useEmbedded, http_redirects, http_errorPages, customize,
          pending, ErrorPages, redirects, routerMap, roots, req, x, clock, arrived,
          passwordFile, bah, gate>>

basicAuth == <<passwordFile, bah, gate>>

config == <<useEmbedded, http_redirects, http_errorPages, customize>>
tables == <<ErrorPages, redirects, routerMap, roots>>

---------------------------------------------------------------------------
(* strings.TrimPrefix, strings.HasPrefix, strings.HasSuffix, strconv.Atoi  *)

HasPrefix(s, prefix) ==
    /\ Len(s) >= Len(prefix)
    /\ SubSeq(s, 1, Len(prefix)) = prefix

HasSuffix(s, suffix) ==
    /\ Len(s) >= Len(suffix)
    /\ SubSeq(s, Len(s) - Len(suffix) + 1, Len(s)) = suffix

TrimPrefix(s, prefix) ==
    IF HasPrefix(s, prefix) THEN SubSeq(s, Len(prefix) + 1, Len(s)) ELSE s

Digits == {"0", "1", "2", "3", "4", "5", "6", "7", "8", "9"}

DigitVal(d) ==
    CASE d = "0" -> 0 [] d = "1" -> 1 [] d = "2" -> 2 [] d = "3" -> 3
      [] d = "4" -> 4 [] d = "5" -> 5 [] d = "6" -> 6 [] d = "7" -> 7
      [] d = "8" -> 8 [] d = "9" -> 9

RECURSIVE DecimalValue(_)
DecimalValue(s) ==
    IF s = << >> THEN 0
    ELSE 10 * DecimalValue(SubSeq(s, 1, Len(s) - 1)) + DigitVal(s[Len(s)])

DigitToken(d) ==
    CASE d = 0 -> "0" [] d = 1 -> "1" [] d = 2 -> "2" [] d = 3 -> "3"
      [] d = 4 -> "4" [] d = 5 -> "5" [] d = 6 -> "6" [] d = 7 -> "7"
      [] d = 8 -> "8" [] d = 9 -> "9"

\* strconv.Itoa and fmt.Sprintf("%d", n), for n >= 0
RECURSIVE Itoa(_)
Itoa(n) ==
    IF n < 10 THEN <<DigitToken(n)>> ELSE Itoa(n \div 10) \o <<DigitToken(n % 10)>>

\* strconv.Atoi: an optional sign, then one or more decimal digits.
Atoi(s) ==
    LET signed == s # << >> /\ s[1] \in {"+", "-"}
        digits == IF signed THEN Tail(s) ELSE s
    IN  IF digits # << >> /\ \A i \in 1..Len(digits) : digits[i] \in Digits
        THEN [err |-> FALSE,
              val |-> IF signed /\ s[1] = "-" THEN 0 - DecimalValue(digits)
                      ELSE DecimalValue(digits)]
        ELSE [err |-> TRUE, val |-> 0]

---------------------------------------------------------------------------
(* The asset stores.  A file is named by its path, a sequence of tokens;   *)
(* its bytes are named after the store and the path they were read from.   *)

templatesDirectory == <<"templates/">>
staticDirectory == <<"static/">>

\* sf, the embedded bundle handed to CreateService as staticFiles
staticFiles ==
    { <<"static/", "logo.png">>,
      <<"static/", "my404", ".html">>,
      <<"pages/", "teapot", ".html">> }

\* the static directory on the local file system (os.DirFS / http.Dir)
staticDirFS ==
    { <<"disk.png">>, <<"my404", ".html">> }

\* t, the embedded bundle handed to CreateService as templates
templates ==
    { <<"templates/", "about", ".gohtml">>,
      <<"templates/", "e", ".gohtml">>,
      <<"templates/", "bad", ".gohtml">> }

\* the templates directory on the local file system
templatesDirFS ==
    { <<"about", ".gohtml">>, <<"e", ".gohtml">>, <<"bad", ".gohtml">> }

\* templates whose parse or execution fails
failingTemplates == { <<"bad", ".gohtml">> }

\* the errorPages directory compiled into the server
errorPageFiles ==
    { <<"errorPages/", "400", ".html">>, <<"errorPages/", "401", ".html">>,
      <<"errorPages/", "403", ".html">>, <<"errorPages/", "404", ".html">>,
      <<"errorPages/", "405", ".html">>, <<"errorPages/", "500", ".html">> }

NoBytes == << >>

\* embed.FS.ReadFile: the bytes of the file, or nil and an error
ReadFile(store, fsys, path) ==
    IF path \in fsys
    THEN [bytes |-> <<store>> \o path, err |-> FALSE]
    ELSE [bytes |-> NoBytes, err |-> TRUE]

\* template.New(name).ParseFS(fsRoot, name...) and t.Execute
Rendered(name) == <<"rendered">> \o name

RenderTemplate(name) ==
    LET found == IF useEmbedded
                 THEN (templatesDirectory \o name) \in templates
                 ELSE name \in templatesDirFS
    IN  IF found /\ name \notin failingTemplates
        THEN [bytes |-> Rendered(name), err |-> FALSE]
        ELSE [bytes |-> NoBytes, err |-> TRUE]


---------------------------------------------------------------------------
(* Configuration: the values the viper lookups of requestHandler return.   *)

\* Go's uint(int) on a 64-bit build: the value is val, plus 2^64 when wrapped.
ToUint(i) == [val |-> i, wrapped |-> i < 0]

\* Go's int(uint) on a 64-bit build: a value of 2^63 or more loses 2^64 again.
ToInt(u) == u.val

DefaultRedirectCode == 301

\* os.Getenv: the value of the variable, "" when it is not set
Getenv(name) == IF name = <<"TARGET">> THEN <<"/from-env">> ELSE << >>

\* an entry of http.redirects: whether it has a "code", whether that value
\* is an int, the int, and the "location"
RedirectValue(hasCode, code, location) ==
    [hasCode |-> hasCode, isInt |-> TRUE, code |-> code, location |-> location]

\* an entry whose "code" is a string
TextCodeRedirect(location) ==
    [hasCode |-> TRUE, isInt |-> FALSE, code |-> 0, location |-> location]

Old == <<"old">>
Both == <<"both">>

NoRedirects == [k \in {} |-> RedirectValue(FALSE, 0, << >>)]

RedirectConfigs ==
    { NoRedirects,
      [k \in {Old, Both} |->
          IF k = Old THEN RedirectValue(TRUE, 302, <<"/new-page">>)
          ELSE RedirectValue(FALSE, 0, <<"env.", "TARGET">>)],
      [k \in {Old, Both} |->
          IF k = Old THEN RedirectValue(TRUE, -1, <<"env.", "UNSET">>)
          ELSE RedirectValue(TRUE, 200, <<"/new-page">>)],
      [k \in {Old} |-> TextCodeRedirect(<<"/new-page">>)] }

\* viper "http.controllers": path key -> template name
http_controllers ==
    [k \in {<<"about">>, Both, <<"broken">>} |->
        IF k = <<"broken">> THEN <<"bad", ".gohtml">> ELSE <<"about", ".gohtml">>]

\* viper "http.errorPages": status-code key -> file name
ErrorPageKeys == { <<"4", "0", "4">>, <<"4", "1", "8">>, <<"4", "x">> }

ErrorPageNames ==
    { <<"static/", "my404", ".html">>,   \* a file of the embedded bundle
      <<"my404", ".html">>,              \* a file of the static directory
      <<"e", ".gohtml">>,                \* a template
      <<"e", ".gohtml", ".bak">>,        \* no template, and no file either
      <<"bad", ".gohtml">> }             \* a template that does not render

\* a key that is a number and no status code
LowKey == <<"4", "2">>

ErrorPageConfigs ==
    UNION { [K -> ErrorPageNames] : K \in SUBSET ErrorPageKeys }
      \cup [{LowKey} -> ErrorPageNames]

\* the customization functions the embedding application may pass
Customizations == {"identity", "addForm", "addAdmin"}

ModelController(key, template) ==
    [kind |-> "model", Path |-> key, Template |-> template,
     ResponseCode |-> 0, ContentType |-> << >>]

CustomController ==
    [kind |-> "custom", Path |-> << >>, Template |-> << >>,
     ResponseCode |-> 0, ContentType |-> << >>]

Customise(c, rm) ==
    IF c = "addForm"
    THEN [k \in DOMAIN rm \cup {<<"form">>} |->
             IF k = <<"form">> THEN CustomController ELSE rm[k]]
    ELSE IF c = "addAdmin"
    THEN [k \in DOMAIN rm \cup {<<"/", "admin">>} |->
             IF k = <<"/", "admin">> THEN CustomController ELSE rm[k]]
    ELSE rm

ErrorPageDefinition(name, isDefault, isTemplate) ==
    [Name |-> name, IsDefault |-> isDefault, IsTemplate |-> isTemplate]

BuiltInCodes == {400, 401, 403, 404, 405, 500}

CodeToken(c) ==
    CASE c = 400 -> "400" [] c = 401 -> "401" [] c = 403 -> "403"
      [] c = 404 -> "404" [] c = 405 -> "405" [] c = 500 -> "500"

\* CreateService: ErrorPages[code] = &ErrorPageDefinition{Name: "<code>.html", IsDefault: true}
DefaultErrorPages ==
    [c \in BuiltInCodes |-> ErrorPageDefinition(<<CodeToken(c), ".html">>, TRUE, FALSE)]

\* requestHandler, the loop over http.controllers
BuildRouterMap ==
    [k \in DOMAIN http_controllers |-> ModelController(k, http_controllers[k])]

\* requestHandler, the loop over http.redirects
BuildRedirect(v) ==
    LET code == IF v.hasCode THEN ToUint(v.code) ELSE ToUint(DefaultRedirectCode)
        location == IF HasPrefix(v.location, <<"env.">>)
                    THEN Getenv(TrimPrefix(v.location, <<"env.">>))
                    ELSE v.location
    IN  [Code |-> code, Location |-> location]

BuildRedirects(cfg) == [k \in DOMAIN cfg |-> BuildRedirect(cfg[k])]

\* the override replaces the table by one that holds the override alone
OverrideErrorPage_Replaces(pages, code, name) ==
    [c \in {code} |-> ErrorPageDefinition(name, FALSE, HasSuffix(name, <<".gohtml">>))]

\* the override renames the page and leaves IsDefault as it was
OverrideErrorPage_KeepsDefault(pages, code, name) ==
    [c \in DOMAIN pages \cup {code} |->
        IF c = code
        THEN ErrorPageDefinition(name, c \in DOMAIN pages /\ pages[c].IsDefault,
                                 HasSuffix(name, <<".gohtml">>))
        ELSE pages[c]]

\* requestHandler, one iteration of the loop over http.errorPages
OverrideErrorPage(pages, code, name) ==
    [c \in DOMAIN pages \cup {code} |->
        IF c = code
        THEN ErrorPageDefinition(name, FALSE, HasSuffix(name, <<".gohtml">>))
        ELSE pages[c]]

\* r.Context(): whether it carries a value for requestIDKey, and the value
Background == [ok |-> FALSE, requestID |-> << >>]
WithValue(requestID) == [ok |-> TRUE, requestID |-> requestID]

\* a request: method, URL, the X-Request-Id header (<< >> when absent) and
\* the context it carries
HTTPRequest(method, path, query, id) ==
    [Method |-> method, Path |-> path, RawQuery |-> query, XRequestId |-> id,
     ctx |-> Background]

NoRequest == HTTPRequest("", << >>, << >>, << >>)
NoResult ==
    [code |-> 0, redirectUrl |-> << >>, contentType |-> << >>,
     b |-> [isNil |-> TRUE, bytes |-> NoBytes],
     controllerError |-> [isNil |-> TRUE, ResponseCode |-> 0]]

NoHeader == [n \in {} |-> << >>]

\* a fresh response writer and an empty record of what the dispatcher did
\* the fields of a loggingResponseWriter, before Logging makes one
NoWriter == [statusCode |-> 0, size |-> 0, processingStartTime |-> 0, duration |-> 0]

NewExchange ==
    [header |-> NoHeader,       \* w.Header()
     wroteHeader |-> FALSE,     \* the status line is committed
     status |-> 0,              \* the committed status code
     sent |-> NoHeader,         \* the header as committed with the status line
     body |-> << >>,            \* the bodies written, in order
     calls |-> << >>,           \* the calls made on w, in order
     events |-> << >>,          \* span events and collaborators invoked
     branches |-> << >>,        \* the dispatch branches entered
     resolved |-> << >>,        \* the error-page resolutions made
     handled |-> NoResult,      \* what the controller returned
     panicked |-> FALSE,        \* the handler panicked; nothing after it ran
     now |-> 0,                 \* time.Now(), counted from the request's arrival
     lrw |-> NoWriter,          \* the loggingResponseWriter of Logging
     requestID |-> << >>,       \* the id Tracing chose
     ctx |-> Background,        \* r.Context() as the dispatcher got it
     returned |-> 0,            \* the time at which Logging's next returned
     log |-> << >>,             \* the access-log records written
     metrics |-> << >>]         \* the metric observations made

\* the password file: no path configured, a path that cannot be opened, or
\* the lines of the file
PasswordFile(kind, lines) == [kind |-> kind, lines |-> lines]

NoCredentials == [u \in {} |-> << >>]

\* &authentication.BasicAuthHandler{}; loads counts the times the table was
\* populated from the configured file
NewBasicAuthHandler == [Credentials |-> NoCredentials, Loaded |-> FALSE, loads |-> 0]

\* the requests to /metrics
MaxGateRequests == 2
GateRequests == 1..MaxGateRequests

NoBasicAuth == [ok |-> FALSE, u |-> << >>, p |-> << >>]

\* a request that has not arrived
IdleRequest ==
    [pc |-> "idle", auth |-> NoBasicAuth, remaining |-> << >>,
     status |-> 0, header |-> NoHeader, invoked |-> FALSE]

\* nothing has reached /metrics
NoGateRequests ==
    /\ passwordFile = PasswordFile("none", << >>)
    /\ bah = NewBasicAuthHandler
    /\ gate = [i \in GateRequests |-> IdleRequest]

\* the asset roots before CreateService, and as CreateService and
\* requestHandler leave them
NoRoots == [staticFiles |-> "nil", templates |-> "nil", staticHandler |-> "nil"]
AssetRoots(embedded) ==
    [staticFiles |-> "sf",
     templates |-> IF embedded THEN "t" ELSE "os.DirFS(templatesDirectory)",
     staticHandler |-> IF embedded THEN "http.FileServer(fs.Sub(staticFiles, staticDirectory))"
                       ELSE "http.FileServer(http.Dir(staticDirectory))"]

Init ==
    /\ phase = "boot"
    /\ useEmbedded \in BOOLEAN
    /\ http_redirects \in RedirectConfigs
    /\ http_errorPages \in ErrorPageConfigs
    /\ customize \in Customizations
    /\ customize = "addAdmin" => http_errorPages = [k \in {} |-> << >>]
    /\ pending = {}
    /\ ErrorPages = [c \in {} |-> ErrorPageDefinition(<< >>, FALSE, FALSE)]
    /\ redirects = BuildRedirects(NoRedirects)
    /\ routerMap = [k \in {} |-> CustomController]
    /\ roots = NoRoots
    /\ req = NoRequest
    /\ x = NewExchange
    /\ clock = 0
    /\ arrived = << >>
    /\ NoGateRequests

\* v["code"].(int) panics for some entry of http.redirects
RedirectsPanic(cfg) == \E k \in DOMAIN cfg : cfg[k].hasCode /\ ~cfg[k].isInt

\* CreateService up to the errorPages loop of requestHandler; a panic in the
\* redirects loop ends the process with the Service not made
CreateService ==
    /\ phase = "boot"
    /\ ErrorPages' = DefaultErrorPages
    /\ roots' = AssetRoots(useEmbedded)
    /\ IF RedirectsPanic(http_redirects)
       THEN /\ phase' = "exited"
            /\ UNCHANGED <<routerMap, redirects, pending>>
       ELSE /\ routerMap' = Customise(customize, BuildRouterMap)
            /\ redirects' = BuildRedirects(http_redirects)
            /\ pending' = DOMAIN http_errorPages
            /\ phase' = "errorPages"
    /\ UNCHANGED <<config, req, x, clock, arrived, basicAuth>>

\* one iteration of the errorPages loop; a malformed key ends the process
ErrorPageEntry ==
    /\ phase = "errorPages"
    /\ \E key \in pending :
          LET parsed == Atoi(key) IN
          IF parsed.err
          THEN /\ phase' = "exited"
               /\ UNCHANGED <<pending, ErrorPages>>
          ELSE /\ ErrorPages' = OverrideErrorPage(ErrorPages, parsed.val, http_errorPages[key])
               /\ pending' = pending \ {key}
               /\ UNCHANGED phase
    /\ UNCHANGED <<config, redirects, routerMap, roots, req, x, clock, arrived, basicAuth>>

\* requestHandler returns the Service and CreateService registers the handler
Register ==
    /\ phase = "errorPages"
    /\ pending = {}
    /\ phase' = "serving"
    /\ UNCHANGED <<config, pending, tables, req, x, clock, arrived, basicAuth>>

---------------------------------------------------------------------------
(* The response writer.  Each operation is a step of the handler: once the *)
(* handler has panicked, no later step runs.  The transport underneath is  *)
(* net/http's: the first WriteHeader commits the status line together with *)
(* the header as it is then, a later one is ignored, a code outside        *)
(* 100..999 panics, and a Write before any WriteHeader commits 200.  The   *)
(* w of the dispatcher and of the static handler is the                    *)
(* loggingResponseWriter, which records before it delegates.  Every        *)
(* operation takes one unit of time.                                       *)

Put(h, name, value) ==
    [n \in DOMAIN h \cup {name} |-> IF n = name THEN value ELSE h[n]]

Call(by, op, name, value, code, bytes) ==
    [by |-> by, op |-> op, name |-> name, value |-> value, code |-> code, bytes |-> bytes]

StatusOK == 200
StatusNotFound == 404

NewLoggingResponseWriter(now) ==
    [statusCode |-> StatusOK, size |-> 0, processingStartTime |-> now, duration |-> 0]

\* the codes the transport's WriteHeader accepts
ValidStatus(code) == code >= 100 /\ code <= 999

Commit(e, code) ==
    IF e.wroteHeader THEN e
    ELSE IF ~ValidStatus(code) THEN [e EXCEPT !.panicked = TRUE]
    ELSE [e EXCEPT !.wroteHeader = TRUE, !.status = code, !.sent = e.header]

\* w.Header().Set(name, value)
HeaderSet(e, by, name, value) ==
    IF e.panicked THEN e
    ELSE [e EXCEPT !.header = Put(@, name, value),
                   !.calls = Append(@, Call(by, "Header.Set", name, value, 0, NoBytes)),
                   !.now = @ + 1]

\* lrw.WriteHeader(code): record the code, then delegate
WriteHeader(e, by, code) ==
    IF e.panicked THEN e
    ELSE Commit([e EXCEPT !.calls = Append(@, Call(by, "WriteHeader", "", << >>, code, NoBytes)),
                          !.lrw.statusCode = code,
                          !.now = @ + 1],
                code)

\* lrw.Write(bytes): record the size of a body that is not nil, delegate,
\* then record the time since the wrapper was made; NoBytes is the nil slice
Write(e, by, bytes) ==
    IF e.panicked THEN e
    ELSE LET c == Commit([e EXCEPT !.calls = Append(@, Call(by, "Write", "", << >>, 0, bytes)),
                                   !.lrw.size = IF bytes # NoBytes THEN Len(bytes) ELSE @,
                                   !.now = @ + 1],
                         StatusOK)
         IN  [c EXCEPT !.body = Append(@, bytes),
                       !.lrw.duration = c.now - c.lrw.processingStartTime]

\* span.SetAttributes(attribute.String("event", name)) and calls of collaborators
Event(e, name) ==
    IF e.panicked THEN e ELSE [e EXCEPT !.events = Append(@, name), !.now = @ + 1]

\* the handler is at the first statement of a dispatch branch
Enter(e, branch) ==
    IF e.panicked THEN e ELSE [e EXCEPT !.branches = Append(@, branch)]

\* b.Bytes() on a *bytes.Buffer: a nil pointer dereference when b is nil
Bytes(e, b) == IF b.isNil THEN [e EXCEPT !.panicked = TRUE] ELSE e

---------------------------------------------------------------------------
(* The error-page resolver and the static probe.                           *)

ProcessingError(code) == [isNil |-> FALSE, ResponseCode |-> code]
NoError == [isNil |-> TRUE, ResponseCode |-> 0]

Resolution(r, code, via) ==
    [bytes |-> r.bytes, err |-> r.err, code |-> code, via |-> via]

\* the resolver reads every page that is no template from the static root
GetErrorPageContent_NoDefaultRead(pe) ==
    IF pe.ResponseCode \in DOMAIN ErrorPages
    THEN LET errorDefinition == ErrorPages[pe.ResponseCode] IN
         IF errorDefinition.IsTemplate
         THEN Resolution(RenderTemplate(errorDefinition.Name), pe.ResponseCode, "template")
         ELSE Resolution(ReadFile("staticFiles", staticFiles, errorDefinition.Name),
                         pe.ResponseCode, "static")
    ELSE Resolution([bytes |-> NoBytes, err |-> FALSE], pe.ResponseCode, "absent")

GetErrorPageContent(pe) ==
    IF pe.ResponseCode \in DOMAIN ErrorPages
    THEN LET errorDefinition == ErrorPages[pe.ResponseCode] IN
         IF errorDefinition.IsTemplate
         THEN Resolution(RenderTemplate(errorDefinition.Name), pe.ResponseCode, "template")
         ELSE IF errorDefinition.IsDefault
         THEN Resolution(ReadFile("errorPages", errorPageFiles,
                                  <<"errorPages/">> \o errorDefinition.Name),
                         pe.ResponseCode, "default")
         ELSE Resolution(ReadFile("staticFiles", staticFiles, errorDefinition.Name),
                         pe.ResponseCode, "static")
    ELSE Resolution([bytes |-> NoBytes, err |-> FALSE], pe.ResponseCode, "absent")

\* the handler calls GetErrorPageContent(pe)
Resolve(e, pe) ==
    IF e.panicked THEN e
    ELSE [e EXCEPT !.resolved = Append(@, GetErrorPageContent(pe)),
                   !.events = Append(@, "GetErrorPageContent"),
                   !.now = @ + 1]

LastResolved(e) == e.resolved[Len(e.resolved)].bytes

staticFileExists(fileName) ==
    IF useEmbedded
    THEN (staticDirectory \o fileName) \in staticFiles
    ELSE fileName \in staticDirFS

\* s.staticHandler.ServeHTTP(w, r): http.FileServer on the static root
StaticFile(fileName) ==
    IF useEmbedded
    THEN ReadFile("staticFiles", staticFiles, staticDirectory \o fileName)
    ELSE ReadFile("staticDirectory", staticDirFS, fileName)

staticHandler(e, fileName) ==
    LET f == StaticFile(fileName)
        e1 == Event(e, "staticHandler")
    IN  IF f.err
        THEN WriteHeader(e1, "staticHandler", StatusNotFound)
        ELSE Write(WriteHeader(e1, "staticHandler", StatusOK), "staticHandler", f.bytes)

---------------------------------------------------------------------------
(* Controllers.                                                            *)

Result(code, redirectUrl, contentType, b, controllerError) ==
    [code |-> code, redirectUrl |-> redirectUrl, contentType |-> contentType,
     b |-> b, controllerError |-> controllerError]

NilBuffer == [isNil |-> TRUE, bytes |-> NoBytes]
Buffer(bytes) == [isNil |-> FALSE, bytes |-> bytes]

StatusInternalServerError == 500

\* the bound ResponseCode is ignored
Render_AlwaysOK(m) ==
    LET t == RenderTemplate(m.Template) IN
    IF t.err
    THEN Result(0, << >>, << >>, NilBuffer, ProcessingError(StatusInternalServerError))
    ELSE Result(StatusOK,
                << >>,
                IF m.ContentType = << >> THEN <<"text/html">> ELSE m.ContentType,
                Buffer(t.bytes), NoError)

\* model.Model.Render, as called by controllers.Model.Handle
Render(m) ==
    LET t == RenderTemplate(m.Template) IN
    IF t.err
    THEN Result(0, << >>, << >>, NilBuffer, ProcessingError(StatusInternalServerError))
    ELSE Result(IF m.ResponseCode = 0 THEN StatusOK ELSE m.ResponseCode,
                << >>,
                IF m.ContentType = << >> THEN <<"text/html">> ELSE m.ContentType,
                Buffer(t.bytes), NoError)

\* what a controller of the embedding application may return
CustomCodes == {0, 200, 302}
CustomErrors == {NoError, ProcessingError(0), ProcessingError(404),
                 ProcessingError(418), ProcessingError(500)}
CustomResults ==
    { Result(code, url, ct, b, pe) :
        code \in CustomCodes, url \in {<< >>, <<"/login">>},
        ct \in {<< >>, <<"application/json">>},
        b \in {NilBuffer, Buffer(<<"custom", "body">>)},
        pe \in CustomErrors }

\* route.Handle(r): the 5-tuples the controller may return
Handle(route) ==
    IF route.kind = "model" THEN {Render(route)} ELSE CustomResults

RedirectCodes == {301, 302, 303, 307, 308}

\* r.URL.String()
URLString(url) ==
    IF url.RawQuery = << >> THEN url.Path ELSE url.Path \o <<"?">> \o url.RawQuery

---------------------------------------------------------------------------
(* Service.ServeHTTP                                                        *)

ServeRedirect(e, redirect) ==
    LET e1 == Event(Enter(e, "redirect"), "redirect")
        e2 == HeaderSet(e1, "dispatcher", "Location", redirect.Location)
    IN  WriteHeader(e2, "dispatcher", ToInt(redirect.Code))

\* the 404 branch gives up when the resolver fails
ServeNotFound_ReturnsOnError(e) ==
    LET e1 == Event(Enter(e, "not-found"), "controller-error")
        e2 == Resolve(e1, ProcessingError(StatusNotFound))
        e3 == WriteHeader(e2, "dispatcher", StatusNotFound)
        e4 == HeaderSet(e3, "dispatcher", "Content-Type", <<"text/html">>)
    IN  IF e2.resolved[1].err THEN e2 ELSE Write(e4, "dispatcher", LastResolved(e2))

ServeNotFound(e) ==
    LET e1 == Event(Enter(e, "not-found"), "controller-error")
        e2 == Resolve(e1, ProcessingError(StatusNotFound))
        e3 == WriteHeader(e2, "dispatcher", StatusNotFound)
        e4 == HeaderSet(e3, "dispatcher", "Content-Type", <<"text/html">>)
    IN  Write(e4, "dispatcher", LastResolved(e2))

\* the static branch delegates without probing the static store
ServeStatic_AlwaysDelegates(e, path) ==
    staticHandler(Enter(Event(e, "static-file"), "static"), path)

ServeStatic(e, path) ==
    LET e1 == Event(Event(e, "static-file"), "staticFileExists") IN
    IF staticFileExists(path)
    THEN staticHandler(Enter(e1, "static"), path)
    ELSE ServeNotFound(e1)

ServeControllerError(e, h) ==
    LET e1 == Event(Enter(e, "controller-error"), "controller-error")
        e2 == WriteHeader(e1, "dispatcher", h.controllerError.ResponseCode)
        contentType == IF h.contentType = << >> THEN <<"text/html">> ELSE h.contentType
        e3 == HeaderSet(e2, "dispatcher", "Content-Type", contentType)
        e4 == IF h.b.isNil THEN Resolve(e3, h.controllerError) ELSE e3
        errorPageContent == IF h.b.isNil
                            THEN (IF e4.panicked THEN NoBytes ELSE LastResolved(e4))
                            ELSE h.b.bytes
    IN  Write(e4, "dispatcher", errorPageContent)

ServeControllerRedirect(e, r, h) ==
    LET e1 == Enter(e, "controller-redirect")
        e2 == IF h.redirectUrl # << >>
              THEN HeaderSet(e1, "dispatcher", "Location", h.redirectUrl)
              ELSE HeaderSet(e1, "dispatcher", "Location", URLString(r))
    IN  WriteHeader(e2, "dispatcher", h.code)

ServeResponse(e, h) ==
    LET e1 == Event(Enter(e, "response"), "response")
        e2 == WriteHeader(e1, "dispatcher", h.code)
        e3 == HeaderSet(e2, "dispatcher", "Content-Type", h.contentType)
        e4 == Bytes(e3, h.b)
    IN  Write(e4, "dispatcher", h.b.bytes)

\* the controller-error branch does not return
ServeController_FallsThrough(e, r, h) ==
    LET e1 == [Event(Event(e, "handler"), "Handle") EXCEPT !.handled = h]
        e2 == IF ~h.controllerError.isNil THEN ServeControllerError(e1, h) ELSE e1
    IN  IF h.code \in RedirectCodes THEN ServeControllerRedirect(e2, r, h)
        ELSE ServeResponse(e2, h)

ServeController(e, r, h) ==
    LET e1 == [Event(Event(e, "handler"), "Handle") EXCEPT !.handled = h] IN
    IF ~h.controllerError.isNil THEN ServeControllerError(e1, h)
    ELSE IF h.code \in RedirectCodes THEN ServeControllerRedirect(e1, r, h)
    ELSE ServeResponse(e1, h)

\* the entry of the dispatcher: tracer.Start(r.Context(), "/beta"), then
\* span.End() at once, then the "resource" attribute
StartSpan(e, r) ==
    Event(Event(Event([Event(e, "ServeHTTP") EXCEPT !.ctx = r.ctx],
                      "tracer.Start"), "span.End"), "resource")

\* the route table is consulted before the redirect table
ServeHTTP_RouteFirst(e, r, h) ==
    LET path == TrimPrefix(r.Path, <<"/">>)
        e1 == StartSpan(e, r)
    IN  IF path \in DOMAIN routerMap
        THEN ServeController(e1, r, IF h = NoResult THEN Render(routerMap[path]) ELSE h)
        ELSE IF path \in DOMAIN redirects THEN ServeRedirect(e1, redirects[path])
        ELSE ServeStatic(e1, path)

\* the dispatcher on writer e, for request r when the controller (if any is
\* called) returns h; its span starts from r.Context()
ServeHTTP(e, r, h) ==
    LET path == TrimPrefix(r.Path, <<"/">>)
        e1 == StartSpan(e, r)
    IN  IF path \in DOMAIN redirects THEN ServeRedirect(e1, redirects[path])
        ELSE IF path \notin DOMAIN routerMap THEN ServeStatic(e1, path)
        ELSE ServeController(e1, r, h)

---------------------------------------------------------------------------
(* The middleware: Tracing(nextRequestID)(Logging()(service)).             *)

\* the paths neither traced nor logged
Unobserved(path) ==
    path = <<"/", "healthz">> \/ path = <<"/", "ready">> \/ path = <<"/", "metrics">>

\* the record slog.Info writes
LogRecord(requestID, lrw) ==
    [request_id |-> requestID, status |-> lrw.statusCode,
     processing_time |-> lrw.duration, size |-> lrw.size]

\* RequestDurationGauge / RequestDurationSummary .WithLabelValues(code, ...)
Observation(metric, lrw) ==
    [metric |-> metric, code |-> Itoa(lrw.statusCode), value |-> lrw.duration]

\* the handler Logging() makes of next = service.  The deferred function is
\* registered after next has returned, so a panic of next skips it.
Logging(e, r, h) ==
    LET e1 == [Event(e, "Logging") EXCEPT !.lrw = NewLoggingResponseWriter(e.now)]
        e2 == ServeHTTP(e1, r, h)
        e3 == [e2 EXCEPT !.returned = e2.now]
        requestID == IF r.ctx.ok THEN r.ctx.requestID ELSE <<"unknown">>
    IN  IF e2.panicked THEN e2
        ELSE IF ~Unobserved(r.Path)
        THEN [e3 EXCEPT !.log = Append(@, LogRecord(requestID, e3.lrw)),
                        !.metrics = @ \o << Observation("RequestDurationGauge", e3.lrw),
                                            Observation("RequestDurationSummary", e3.lrw) >>]
        ELSE e3

\* fmt.Sprintf("%d", time.Now().UnixNano())
nextRequestID(t) == Itoa(t)

\* the exempt requests are answered without calling next
Tracing_SkipsExempt(e, r, h, t) ==
    LET requestID == IF r.XRequestId = << >> THEN nextRequestID(t) ELSE r.XRequestId
        ctx == WithValue(requestID)
        e1 == HeaderSet([e EXCEPT !.requestID = requestID],
                        "Tracing", "X-Request-Id", requestID)
    IN  IF /\ r.Method # "OPTIONS"
           /\ r.Method # "HEAD"
           /\ ~Unobserved(r.Path)
        THEN Logging(Event(e1, "otelhttp.NewHandler"), [r EXCEPT !.ctx = ctx], h)
        ELSE e1

\* the handler Tracing(nextRequestID) makes of next = Logging()(service),
\* when the clock reads t
Tracing(e, r, h, t) ==
    LET requestID == IF r.XRequestId = << >> THEN nextRequestID(t) ELSE r.XRequestId
        ctx == WithValue(requestID)
        e1 == HeaderSet([e EXCEPT !.requestID = requestID],
                        "Tracing", "X-Request-Id", requestID)
    IN  IF /\ r.Method # "OPTIONS"
           /\ r.Method # "HEAD"
           /\ ~Unobserved(r.Path)
        THEN Logging(Event(e1, "otelhttp.NewHandler"), [r EXCEPT !.ctx = ctx], h)
        ELSE Logging(e1, r, h)

\* the 5-tuples the dispatch of r may get from a controller
Handled(r) ==
    LET path == TrimPrefix(r.Path, <<"/">>) IN
    IF path \notin DOMAIN redirects /\ path \in DOMAIN routerMap
    THEN Handle(routerMap[path])
    ELSE {NoResult}

\* the readings of the clock the model distinguishes
MaxClock == 1

URL(path, query) == HTTPRequest("GET", path, query, << >>)

Requests ==
    { URL(<<"/", "old">>, << >>), URL(<<"/", "both">>, << >>),
      URL(<<"/", "about">>, << >>), URL(<<"/", "broken">>, << >>),
      URL(<<"/", "form">>, << >>), URL(<<"/", "form">>, <<"a=1">>),
      URL(<<"/", "logo.png">>, << >>), URL(<<"/", "disk.png">>, << >>),
      URL(<<"/", "missing.png">>, << >>), URL(<<"/">>, << >>),
      URL(<<"/", "admin">>, << >>),
      URL(<<"/", "healthz">>, << >>), URL(<<"/", "ready">>, << >>),
      HTTPRequest("GET", <<"/", "about">>, << >>, <<"abc">>),
      HTTPRequest("GET", <<"/", "ready">>, << >>, <<"abc">>),
      HTTPRequest("HEAD", <<"/", "about">>, << >>, << >>),
      HTTPRequest("HEAD", <<"/", "healthz">>, << >>, << >>),
      HTTPRequest("HEAD", <<"/", "logo.png">>, << >>, <<"abc">>),
      HTTPRequest("OPTIONS", <<"/", "old">>, << >>, << >>),
      HTTPRequest("OPTIONS", <<"/", "missing.png">>, << >>, <<"0">>),
      HTTPRequest("POST", <<"/", "about">>, << >>, << >>) }

\* the resolver keeps an entry for every code it was asked about
Request_RemembersCodes ==
    /\ phase = "serving"
    /\ \E r \in Requests : \E h \in Handled(r) :
          /\ req' = r
          /\ x' = Tracing(NewExchange, r, h, clock)
    /\ ErrorPages' =
          [c \in DOMAIN ErrorPages \cup {x'.resolved[i].code : i \in 1..Len(x'.resolved)} |->
              IF c \in DOMAIN ErrorPages THEN ErrorPages[c]
              ELSE ErrorPageDefinition(<< >>, FALSE, FALSE)]
    /\ phase' = "responded"
    /\ UNCHANGED <<config, pending, redirects, routerMap, roots, clock, arrived, basicAuth>>

\* one request, from the entry of the registered handler to its return or panic
Request ==
    /\ phase = "serving"
    /\ \E r \in Requests : \E h \in Handled(r) :
          /\ req' = r
          /\ x' = Tracing(NewExchange, r, h, clock)
    /\ phase' = "responded"
    /\ UNCHANGED <<config, pending, tables, clock, arrived, basicAuth>>

\* time passes between two requests
Tick ==
    /\ phase = "serving"
    /\ clock < MaxClock
    /\ clock' = clock + 1
    /\ UNCHANGED <<phase, config, pending, tables, req, x, arrived, basicAuth>>

\* Server.ListenAndServe: the exchange is over (a panic of the handler is
\* recovered by the connection's goroutine) and the next request is awaited
Run ==
    /\ phase = "responded"
    /\ phase' = "serving"
    /\ req' = NoRequest
    /\ x' = NewExchange
    /\ UNCHANGED <<config, pending, tables, clock, arrived, basicAuth>>

Next == CreateService \/ ErrorPageEntry \/ Register \/ Request \/ Tick \/ Run

Spec == Init /\ [][Next]_vars

---------------------------------------------------------------------------
(* The loggingResponseWriter on its own: Logging has made the wrapper and  *)
(* its next handler, whatever it is, calls WriteHeader and Write on it in  *)
(* any order and then returns.                                             *)

\* the longest sequence of calls the inner handler makes
MaxCalls == 3

InnerCodes == {StatusOK, StatusNotFound, StatusInternalServerError}
InnerBodies == {NoBytes, <<"a">>, <<"b", "c">>}

InitWriter ==
    /\ phase = "handling"
    /\ useEmbedded = TRUE
    /\ http_redirects = NoRedirects
    /\ http_errorPages = [k \in {} |-> << >>]
    /\ customize = "identity"
    /\ pending = {}
    /\ ErrorPages = DefaultErrorPages
    /\ redirects = BuildRedirects(NoRedirects)
    /\ routerMap = Customise("identity", BuildRouterMap)
    /\ roots = AssetRoots(TRUE)
    /\ req = URL(<<"/", "any">>, << >>)
    /\ x = [NewExchange EXCEPT !.lrw = NewLoggingResponseWriter(0)]
    /\ clock = 0
    /\ arrived = << >>
    /\ NoGateRequests

\* next calls lrw.WriteHeader(code)
InnerWriteHeader ==
    /\ phase = "handling"
    /\ Len(x.calls) < MaxCalls
    /\ \E code \in InnerCodes : x' = WriteHeader(x, "next", code)
    /\ UNCHANGED <<phase, config, pending, tables, req, clock, arrived, basicAuth>>

\* next calls lrw.Write(body)
InnerWrite ==
    /\ phase = "handling"
    /\ Len(x.calls) < MaxCalls
    /\ \E body \in InnerBodies : x' = Write(x, "next", body)
    /\ UNCHANGED <<phase, config, pending, tables, req, clock, arrived, basicAuth>>

\* next.ServeHTTP(lrw, r) returns
InnerReturn ==
    /\ phase = "handling"
    /\ phase' = "returned"
    /\ x' = [x EXCEPT !.returned = x.now]
    /\ UNCHANGED <<config, pending, tables, req, clock, arrived, basicAuth>>

NextWriter == InnerWriteHeader \/ InnerWrite \/ InnerReturn

SpecWriter == InitWriter /\ [][NextWriter]_vars

---------------------------------------------------------------------------
(* Model.Render on its own: a controllers.Model of the embedding           *)
(* application, with any template, ResponseCode and ContentType, handles   *)
(* one request.                                                            *)

Page == <<"page">>

Models ==
    { [kind |-> "model", Path |-> Page, Template |-> t,
       ResponseCode |-> c, ContentType |-> ct] :
        t \in { <<"about", ".gohtml">>, <<"e", ".gohtml">>,
                <<"bad", ".gohtml">>, <<"missing", ".gohtml">> },
        c \in {0, StatusOK, 201, StatusNotFound},
        ct \in { << >>, <<"application/json">> } }

InitRender ==
    /\ phase = "rendering"
    /\ useEmbedded \in BOOLEAN
    /\ http_redirects = NoRedirects
    /\ http_errorPages = [k \in {} |-> << >>]
    /\ customize = "identity"
    /\ pending = {}
    /\ ErrorPages = DefaultErrorPages
    /\ redirects = BuildRedirects(NoRedirects)
    /\ \E m \in Models : routerMap = [k \in {Page} |-> m]
    /\ roots = AssetRoots(useEmbedded)
    /\ req = URL(<<"/">> \o Page, << >>)
    /\ x = NewExchange
    /\ clock = 0
    /\ arrived = << >>
    /\ NoGateRequests

\* route.Handle(r) of the controllers.Model
RenderCall ==
    /\ phase = "rendering"
    /\ \E h \in Handle(routerMap[Page]) : x' = [NewExchange EXCEPT !.handled = h]
    /\ phase' = "rendered"
    /\ UNCHANGED <<config, pending, tables, req, clock, arrived, basicAuth>>

NextRender == RenderCall

SpecRender == InitRender /\ [][NextRender]_vars

---------------------------------------------------------------------------
(* Concurrent arrivals.  net/http runs every request in a goroutine of its *)
(* own; the handler of Tracing reads the clock once, in nextRequestID, and *)
(* shares nothing else, so an interleaving of handlers assigns the ids     *)
(* that some order of their clock readings assigns, with any number of     *)
(* readings between two advances of the clock.                             *)

\* the number of requests in flight
MaxArrivals == 2

InitArrivals ==
    /\ phase = "serving"
    /\ useEmbedded = TRUE
    /\ http_redirects = NoRedirects
    /\ http_errorPages = [k \in {} |-> << >>]
    /\ customize = "identity"
    /\ pending = {}
    /\ ErrorPages = DefaultErrorPages
    /\ redirects = BuildRedirects(NoRedirects)
    /\ routerMap = Customise("identity", BuildRouterMap)
    /\ roots = AssetRoots(TRUE)
    /\ req = NoRequest
    /\ x = NewExchange
    /\ clock = 0
    /\ arrived = << >>
    /\ NoGateRequests

\* the handler of Tracing chooses the id of one more request
Arrive ==
    /\ phase = "serving"
    /\ Len(arrived) < MaxArrivals
    /\ \E r \in Requests : \E h \in Handled(r) :
          arrived' = Append(arrived, [request |-> r,
                                      id |-> Tracing(NewExchange, r, h, clock).requestID])
    /\ UNCHANGED <<phase, config, pending, tables, req, x, clock, basicAuth>>

NextArrivals == Arrive \/ Tick

SpecArrivals == InitArrivals /\ [][NextArrivals]_vars

---------------------------------------------------------------------------
(* The BasicAuth gate of /metrics.  Every request runs the handler in a    *)
(* goroutine of its own and the handler takes no lock, so its statements   *)
(* interleave: the test of bah.Loaded, make with os.Open, one line of the  *)
(* scan, the assignment of bah.Loaded, and the check of the credentials.   *)

\* strings.TrimSpace; " " is a token
RECURSIVE TrimSpace(_)
TrimSpace(s) ==
    IF s = << >> THEN s
    ELSE IF Head(s) = " " THEN TrimSpace(Tail(s))
    ELSE IF s[Len(s)] = " " THEN TrimSpace(SubSeq(s, 1, Len(s) - 1))
    ELSE s

\* bcrypt, as HashAndSalt makes the hash and comparePasswords checks it
HashAndSalt(pwd) == <<"$2a$">> \o pwd
comparePasswords(hashedPwd, plainPwd) == hashedPwd = HashAndSalt(plainPwd)

\* one line of the scan: blank lines, comments and lines that do not split
\* in two at ":" leave the table as it is
ScanLine(credentials, text) ==
    LET line == TrimSpace(text)
        colons == {i \in 1..Len(line) : line[i] = ":"}
    IN  IF line # << >> /\ ~HasPrefix(line, <<"#">>) /\ Cardinality(colons) = 1
        THEN LET i == CHOOSE c \in colons : TRUE IN
             Put(credentials, TrimSpace(SubSeq(line, 1, i - 1)),
                              TrimSpace(SubSeq(line, i + 1, Len(line))))
        ELSE credentials

\* the password file of the deployment
PasswordLines ==
    << <<"#", "metrics", "users">>,
       <<"alice", ":", "$2a$", "secret">>,
       <<" ", "carol", ":", " ", "$2a$", "pw", " ">>,
       <<"erin", ":", "$2a$", "x", ":", "y">> >>

PasswordFiles ==
    { PasswordFile("none", << >>), PasswordFile("missing", << >>),
      PasswordFile("file", PasswordLines) }

\* rq.BasicAuth()
BasicAuthOf(u, p) == [ok |-> TRUE, u |-> u, p |-> p]

GateCredentials ==
    { NoBasicAuth,
      BasicAuthOf(<<"alice">>, <<"secret">>),
      BasicAuthOf(<<"carol">>, <<"pw">>),
      BasicAuthOf(<<"carol">>, <<"secret">>),
      BasicAuthOf(<<"erin">>, <<"x">>),
      BasicAuthOf(<<" ">>, <<"secret">>),
      BasicAuthOf(<<"alice">>, <<" ">>) }

StatusUnauthorized == 401

\* unauthorised(rw)
unauthorised(q) ==
    [q EXCEPT !.header = Put(@, "WWW-Authenticate", <<"Basic realm=Restricted">>),
              !.status = StatusUnauthorized,
              !.pc = "done"]

\* the credentials are taken whatever the password is
Authorised_AnyPassword(auth, credentials) ==
    /\ auth.ok
    /\ Len(TrimSpace(auth.u)) >= 1
    /\ Len(TrimSpace(auth.p)) >= 1
    /\ auth.u \in DOMAIN credentials
    /\ credentials[auth.u] # << >>

\* the checks of the handler from rq.BasicAuth() on
Authorised(auth, credentials) ==
    /\ auth.ok
    /\ Len(TrimSpace(auth.u)) >= 1
    /\ Len(TrimSpace(auth.p)) >= 1
    /\ auth.u \in DOMAIN credentials
    /\ credentials[auth.u] # << >>
    /\ comparePasswords(credentials[auth.u], auth.p)

InitGate ==
    /\ phase = "serving"
    /\ useEmbedded = TRUE
    /\ http_redirects = NoRedirects
    /\ http_errorPages = [k \in {} |-> << >>]
    /\ customize = "identity"
    /\ pending = {}
    /\ ErrorPages = DefaultErrorPages
    /\ redirects = BuildRedirects(NoRedirects)
    /\ routerMap = Customise("identity", BuildRouterMap)
    /\ roots = AssetRoots(TRUE)
    /\ req = NoRequest
    /\ x = NewExchange
    /\ clock = 0
    /\ arrived = << >>
    /\ passwordFile \in PasswordFiles
    /\ bah = NewBasicAuthHandler
    /\ gate = [i \in GateRequests |-> IdleRequest]

GateUnchanged == UNCHANGED <<phase, config, pending, tables, req, x, clock, arrived>>

\* a request to /metrics enters the handler: if !bah.Loaded
GateCheck(i) ==
    /\ gate[i].pc = "idle"
    /\ \E auth \in GateCredentials :
          gate' = [gate EXCEPT ![i].pc = IF bah.Loaded THEN "auth" ELSE "make",
                               ![i].auth = auth]
    /\ UNCHANGED <<passwordFile, bah>>

\* bah.Credentials = make(map[string]string); if path != "" { os.Open(path) ... }
GateOpen(i) ==
    /\ gate[i].pc = "make"
    /\ IF passwordFile.kind = "missing"
       THEN /\ gate' = [gate EXCEPT ![i] = unauthorised(@)]
            /\ bah' = [bah EXCEPT !.Credentials = NoCredentials]
       ELSE /\ gate' = [gate EXCEPT ![i].pc = "scan", ![i].remaining = passwordFile.lines]
            /\ bah' = [bah EXCEPT !.Credentials = NoCredentials,
                                  !.loads = IF passwordFile.kind = "file" THEN @ + 1 ELSE @]
    /\ UNCHANGED passwordFile

\* one turn of for scanner.Scan()
GateScan(i) ==
    /\ gate[i].pc = "scan"
    /\ gate[i].remaining # << >>
    /\ bah' = [bah EXCEPT !.Credentials = ScanLine(@, Head(gate[i].remaining))]
    /\ gate' = [gate EXCEPT ![i].remaining = Tail(@)]
    /\ UNCHANGED passwordFile

\* bah.Loaded = true
GateLoaded(i) ==
    /\ gate[i].pc = "scan"
    /\ gate[i].remaining = << >>
    /\ bah' = [bah EXCEPT !.Loaded = TRUE]
    /\ gate' = [gate EXCEPT ![i].pc = "auth"]
    /\ UNCHANGED passwordFile

\* the checks of the credentials, then unauthorised(rw) or handler.ServeHTTP(rw, rq)
GateAuth(i) ==
    /\ gate[i].pc = "auth"
    /\ gate' = [gate EXCEPT ![i] =
                   IF Authorised(gate[i].auth, bah.Credentials)
                   THEN [@ EXCEPT !.invoked = TRUE, !.status = StatusOK, !.pc = "done"]
                   ELSE unauthorised(@)]
    /\ UNCHANGED <<passwordFile, bah>>

\* the runtime ends the process when it finds a goroutine writing the map
\* while another reads or writes it
GateFault ==
    /\ \E i, j \in GateRequests :
          /\ i # j
          /\ gate[i].pc = "scan"
          /\ gate[i].remaining # << >>
          /\ gate[j].pc \in {"scan", "auth"}
    /\ phase' = "exited"
    /\ UNCHANGED <<config, pending, tables, req, x, clock, arrived, basicAuth>>

\* the password file is put in place while the server runs
FileAppears ==
    /\ passwordFile.kind = "missing"
    /\ passwordFile' = PasswordFile("file", PasswordLines)
    /\ UNCHANGED <<phase, config, pending, tables, req, x, clock, arrived, bah, gate>>

GateStep ==
    \E i \in GateRequests :
        \/ GateCheck(i) \/ GateOpen(i) \/ GateScan(i) \/ GateLoaded(i) \/ GateAuth(i)

NextGate ==
    \/ phase = "serving" /\ GateStep /\ GateUnchanged
    \/ phase = "serving" /\ GateFault
    \/ phase = "serving" /\ FileAppears

SpecGate == InitGate /\ [][NextGate]_vars

---------------------------------------------------------------------------
(* What the properties below read off an exchange.                         *)

Responded == phase = "responded"

Key == TrimPrefix(req.Path, <<"/">>)

\* the calls the dispatcher itself made on w, in order
RECURSIVE CallsBy(_, _)
CallsBy(calls, by) ==
    IF calls = << >> THEN << >>
    ELSE IF Head(calls).by = by THEN <<Head(calls)>> \o CallsBy(Tail(calls), by)
    ELSE CallsBy(Tail(calls), by)

Emitted == CallsBy(x.calls, "dispatcher")

Invoked(name) == \E i \in 1..Len(x.events) : x.events[i] = name

ConfiguredCode(v) == IF v.hasCode THEN v.code ELSE 301

C2_StaticFallback ==
    (Responded /\ Key \notin DOMAIN redirects /\ Key \notin DOMAIN routerMap) =>
        IF ~StaticFile(Key).err
        THEN /\ Invoked("staticHandler")
             /\ Emitted = << >>
             /\ x.resolved = << >>
             /\ x.branches = <<"static">>
        ELSE /\ ~Invoked("staticHandler")
             /\ x.status = 404
             /\ Len(x.resolved) = 1
             /\ x.resolved[1].code = 404
             /\ x.body = << GetErrorPageContent(ProcessingError(404)).bytes >>
             /\ x.branches = <<"not-found">>

C2_WitnessStatic ==
    /\ Responded
    /\ Key = <<"logo.png">>
    /\ Invoked("staticHandler")
    /\ x.status = 200

C2_Witness ==
    /\ Responded
    /\ Key = <<"missing.png">>
    /\ ~Invoked("staticHandler")
    /\ x.status = 404
    /\ x.body = << <<"errorPages", "errorPages/", "404", ".html">> >>

Branches ==
    {"redirect", "controller-error", "controller-redirect", "response",
     "static", "not-found"}

WriteHeaderCalls == {i \in 1..Len(x.calls) : x.calls[i].op = "WriteHeader"}

\* C3: every dispatch enters exactly one of the six terminal branches, once,
\* whatever the request and whatever the controller returns, and calls
\* WriteHeader at most once.
C3_OneOutcome ==
    Responded =>
        /\ Len(x.branches) = 1
        /\ x.branches[1] \in Branches
        /\ Cardinality(WriteHeaderCalls) <= 1
        /\ (x.branches[1] = "redirect") = (Key \in DOMAIN redirects)
        /\ (x.branches[1] \in {"static", "not-found"}) =
              (Key \notin DOMAIN redirects /\ Key \notin DOMAIN routerMap)
        /\ (x.branches[1] = "controller-error") =
              (Invoked("Handle") /\ ~x.handled.controllerError.isNil)
        /\ (x.branches[1] = "controller-redirect") =
              (Invoked("Handle") /\ x.handled.controllerError.isNil
                 /\ x.handled.code \in RedirectCodes)
        /\ (x.branches[1] = "response") =
              (Invoked("Handle") /\ x.handled.controllerError.isNil
                 /\ x.handled.code \notin RedirectCodes)

C3_Witness ==
    /\ Responded
    /\ x.branches = <<"controller-error">>
    /\ x.handled.code = 302
    /\ x.handled.controllerError.ResponseCode = 404
    /\ x.status = 404

\* the dispatcher wrote a body itself
WroteBody == \E i \in 1..Len(Emitted) : Emitted[i].op = "Write"

\* the dispatcher called WriteHeader(code)
EmittedStatus(code) ==
    \E i \in 1..Len(Emitted) : Emitted[i].op = "WriteHeader" /\ Emitted[i].code = code

ControllerCalled == Responded /\ Invoked("Handle")

\* C4: every response the dispatcher writes a body for is committed with a
\* Content-Type header: the controller's content type, text/html when the
\* controller or the error path gave none.  (Header changes made after the
\* status line is committed do not reach the transport.)
C4_ContentTypeCommitted ==
    (Responded /\ WroteBody) =>
        /\ "Content-Type" \in DOMAIN x.sent
        /\ x.sent["Content-Type"] =
              IF Invoked("Handle") /\ x.handled.contentType # << >>
              THEN x.handled.contentType
              ELSE <<"text/html">>

\* C5: when the controller returns a processingError, the dispatcher takes
\* the controller-error branch only, calls WriteHeader with the error's
\* responseCode whatever code was returned with it, and writes the
\* controller's body when there is one and the resolver's bytes for that
\* code otherwise.
C5_ControllerError ==
    (ControllerCalled /\ ~x.handled.controllerError.isNil) =>
        /\ x.branches = <<"controller-error">>
        /\ EmittedStatus(x.handled.controllerError.ResponseCode)
        /\ x.body = << IF x.handled.b.isNil
                       THEN GetErrorPageContent(x.handled.controllerError).bytes
                       ELSE x.handled.b.bytes >>

\* C6: every dispatch that calls a controller or the error-page resolver,
\* whatever the controller returns and whatever the resolver does, ends with
\* the status line committed and without a panic.
C6_StatusAlwaysCommitted ==
    (Responded /\ (Invoked("Handle") \/ Invoked("GetErrorPageContent"))) =>
        (x.wroteHeader /\ ~x.panicked)

\* C7: when the controller returns no processingError, a code among 301,
\* 302, 303, 307, 308 makes the dispatcher set Location to the controller's
\* URL (the request URL when that is empty), call WriteHeader with the code
\* and write no body; any other code makes it call WriteHeader with the code
\* and write the returned body.
C7_ControllerSuccess ==
    (ControllerCalled /\ x.handled.controllerError.isNil) =>
        IF x.handled.code \in RedirectCodes
        THEN /\ Emitted =
                  << Call("dispatcher", "Header.Set", "Location",
                          IF x.handled.redirectUrl # << >> THEN x.handled.redirectUrl
                          ELSE URLString(req), 0, NoBytes),
                     Call("dispatcher", "WriteHeader", "", << >>, x.handled.code, NoBytes) >>
             /\ x.body = << >>
        ELSE /\ EmittedStatus(x.handled.code)
             /\ x.body = << x.handled.b.bytes >>

\* C8: when the error-page resolver yields no bytes (no entry for the code,
\* or a read or render error), the dispatcher still commits the status code
\* it resolved the page for and writes one empty body; the resolver runs at
\* most once in a request.
C8_EmptyErrorPage ==
    Responded =>
        /\ Len(x.resolved) <= 1
        /\ (Len(x.resolved) = 1 /\ x.resolved[1].bytes = NoBytes) =>
              /\ x.wroteHeader
              /\ x.status = x.resolved[1].code
              /\ x.body = << NoBytes >>
              /\ ~x.panicked

C8_WitnessAbsent ==
    /\ Responded
    /\ Len(x.resolved) = 1
    /\ x.resolved[1].via = "absent"
    /\ ~x.resolved[1].err
    /\ x.status = 418
    /\ x.body = << NoBytes >>

C8_Witness ==
    /\ Responded
    /\ Len(x.resolved) = 1
    /\ x.resolved[1].err
    /\ x.resolved[1].via = "template"
    /\ x.status = 404
    /\ x.body = << NoBytes >>

Started == phase \in {"errorPages", "serving", "responded", "exited"}
Serving == phase \in {"serving", "responded"}

\* the keys of http.errorPages that name status code c
OverridesOf(c) ==
    {k \in DOMAIN http_errorPages : ~Atoi(k).err /\ Atoi(k).val = c}

BundledPage(c) == <<"errorPages", "errorPages/", CodeToken(c), ".html">>

\* C9: for a built-in status code that configuration does not override, the
\* table entry keeps IsDefault true from startup on and after any number of
\* requests, and GetErrorPageContent returns the bytes of that code's page
\* of the bundled errorPages set, without error and by the bundled-default
\* read, never by a template or a read of the static root.
C9_DefaultPage ==
    Started =>
        \A c \in BuiltInCodes :
            OverridesOf(c) = {} =>
                /\ c \in DOMAIN ErrorPages
                /\ ErrorPages[c].IsDefault
                /\ GetErrorPageContent(ProcessingError(c)) =
                      [bytes |-> BundledPage(c), err |-> FALSE, code |-> c, via |-> "default"]
                /\ \A i \in 1..Len(x.resolved) :
                      x.resolved[i].code = c =>
                          /\ x.resolved[i].via = "default"
                          /\ x.resolved[i].bytes = BundledPage(c)

C9_Witness ==
    /\ Responded
    /\ http_errorPages # [k \in {} |-> << >>]
    /\ OverridesOf(500) = {}
    /\ Len(x.resolved) = 1
    /\ x.resolved[1].code = 500
    /\ x.status = 500
    /\ x.body = << BundledPage(500) >>
    /\ ErrorPages[500].IsDefault

\* C10: once startup is over, every override of http.errorPages, of a
\* built-in code or of a new one, has left a table entry with IsDefault
\* false, the override's name, and IsTemplate true exactly when the name
\* ends in ".gohtml"; GetErrorPageContent for that code renders the template
\* when IsTemplate and reads the static root otherwise, and never reads the
\* bundled defaults.
C10_Override ==
    Serving =>
        \A k \in DOMAIN http_errorPages :
            LET c == Atoi(k).val
                name == http_errorPages[k]
                got == GetErrorPageContent(ProcessingError(c))
            IN  /\ c \in DOMAIN ErrorPages
                /\ ErrorPages[c].IsDefault = FALSE
                /\ ErrorPages[c].Name = name
                /\ ErrorPages[c].IsTemplate = (name[Len(name)] = ".gohtml")
                /\ got.via = (IF ErrorPages[c].IsTemplate THEN "template" ELSE "static")
                /\ \A i \in 1..Len(x.resolved) :
                      x.resolved[i].code = c => x.resolved[i].via = got.via

C10_WitnessTemplate ==
    /\ Responded
    /\ <<"4", "1", "8">> \in DOMAIN http_errorPages
    /\ Len(x.resolved) = 1
    /\ x.resolved[1].code = 418
    /\ x.resolved[1].via = "template"
    /\ x.body = << <<"rendered", "e", ".gohtml">> >>

C10_Witness ==
    /\ Responded
    /\ <<"4", "0", "4">> \in DOMAIN http_errorPages
    /\ ~ErrorPages[404].IsDefault
    /\ ~ErrorPages[404].IsTemplate
    /\ Len(x.resolved) = 1
    /\ x.resolved[1].code = 404
    /\ x.resolved[1].via = "static"
    /\ x.body = << <<"staticFiles", "static/", "my404", ".html">> >>

\* C11: for an override of http.errorPages that is no template,
\* GetErrorPageContent reads the named file from the root the static fallback
\* serves from (the static directory of the embedded bundle when
\* content.useEmbedded, the static directory of the local filesystem
\* otherwise): it gives the bytes, or the failure, that the static file
\* handler gives for that name.
C11_StaticRoot ==
    Serving =>
        \A k \in DOMAIN http_errorPages :
            LET c == Atoi(k).val
                name == http_errorPages[k]
                got == GetErrorPageContent(ProcessingError(c))
                served == StaticFile(name)
            IN  (c \in DOMAIN ErrorPages /\ ~ErrorPages[c].IsTemplate) =>
                    /\ got.err = served.err
                    /\ got.bytes = served.bytes

\* the status the transport has committed, or commits when the handler
\* returns without having written anything
Committed == IF x.wroteHeader THEN x.status ELSE 200

\* C12: after any sequence of WriteHeader and Write calls of the inner
\* handler on the loggingResponseWriter, the statusCode it has recorded is
\* the status the transport committed: the code of the first WriteHeader, or
\* 200 when a Write came first or nothing was called.
C12_RecordedStatus ==
    phase \in {"handling", "returned"} => x.lrw.statusCode = Committed

\* the request was logged by the access-log wrapper
Logged == Responded /\ x.log # << >>

\* C13: for every request that is logged, OPTIONS and HEAD requests to
\* paths that are not exempt included, the correlation id Tracing chose is
\* the one Logging reads from the request context and the one the
\* dispatcher's context carries, so the logged id is never different from
\* the X-Request-Id the response echoes.
C13_CorrelationId ==
    Logged =>
        /\ x.ctx = WithValue(x.requestID)
        /\ "X-Request-Id" \in DOMAIN x.sent
        /\ \A i \in 1..Len(x.log) :
              /\ x.log[i].request_id = x.requestID
              /\ x.log[i].request_id = x.sent["X-Request-Id"]

\* C14: the duration Logging reports, in the log record and in both metric
\* observations, spans from the making of the wrapper to at least the
\* return of the dispatcher, also for dispatches that write no body
\* (configured and controller redirects) and for those that call Write
\* several times.
C14_Duration ==
    Logged =>
        /\ \A i \in 1..Len(x.log) :
              x.log[i].processing_time >= x.returned - x.lrw.processingStartTime
        /\ \A i \in 1..Len(x.metrics) :
              x.metrics[i].value >= x.returned - x.lrw.processingStartTime

\* how many times a collaborator was invoked
Invocations(name) == Cardinality({i \in 1..Len(x.events) : x.events[i] = name})

\* the id Tracing is to choose for the request
ExpectedId == IF req.XRequestId # << >> THEN req.XRequestId ELSE Itoa(clock)

\* C16: Tracing sets X-Request-Id on the response, to the inbound value when
\* the request has one and to a generated id otherwise, before the inner
\* handler runs (it is the first call on w and part of the committed
\* header); it makes a span exactly when the method is neither OPTIONS nor
\* HEAD and the path none of /healthz, /ready, /metrics; and in every case
\* it invokes the inner handler exactly once.
C16_Tracing ==
    Responded =>
        /\ x.calls # << >>
        /\ x.calls[1] = Call("Tracing", "Header.Set", "X-Request-Id", ExpectedId, 0, NoBytes)
        /\ CallsBy(x.calls, "Tracing") = << x.calls[1] >>
        /\ x.wroteHeader =>
              ("X-Request-Id" \in DOMAIN x.sent /\ x.sent["X-Request-Id"] = ExpectedId)
        /\ Invoked("otelhttp.NewHandler") =
              (/\ req.Method \notin {"OPTIONS", "HEAD"}
               /\ req.Path \notin {<<"/", "healthz">>, <<"/", "ready">>, <<"/", "metrics">>})
        /\ Invocations("otelhttp.NewHandler") <= 1
        /\ Invocations("Logging") = 1
        /\ Invocations("ServeHTTP") = 1

C16_Witness ==
    /\ Responded
    /\ req.Method = "HEAD"
    /\ req.Path = <<"/", "healthz">>
    /\ req.XRequestId = << >>
    /\ clock = 1
    /\ ~Invoked("otelhttp.NewHandler")
    /\ Invocations("Logging") = 1
    /\ x.status = 404
    /\ x.sent["X-Request-Id"] = <<"1">>

C16_WitnessInbound ==
    /\ Responded
    /\ req.Method = "GET"
    /\ req.XRequestId = <<"abc">>
    /\ Invoked("otelhttp.NewHandler")
    /\ x.sent["X-Request-Id"] = <<"abc">>
    /\ x.status = 200

\* C17: any two distinct requests that arrive without an X-Request-Id
\* header during one lifetime of the process, however their handlers
\* interleave, get different generated ids.
C17_UniqueIds ==
    \A i, j \in 1..Len(arrived) :
        (/\ i < j
         /\ arrived[i].request.XRequestId = << >>
         /\ arrived[j].request.XRequestId = << >>) => arrived[i].id # arrived[j].id

RECURSIVE TotalBytes(_)
TotalBytes(bodies) ==
    IF bodies = << >> THEN 0 ELSE Len(Head(bodies)) + TotalBytes(Tail(bodies))

\* C15: when the inner handler has returned, the size the
\* loggingResponseWriter has recorded is the number of bytes written over
\* all the Write calls of the request, 0 when there was none.
C15_RecordedSize ==
    phase = "returned" => x.lrw.size = TotalBytes(x.body)

C19_BuiltInPages ==
    [][/\ phase' # "boot" => BuiltInCodes \subseteq DOMAIN ErrorPages'
       /\ phase # "boot" => DOMAIN ErrorPages \subseteq DOMAIN ErrorPages']_vars

C19_Witness ==
    /\ Responded
    /\ <<"4", "0", "4">> \in DOMAIN http_errorPages
    /\ <<"4", "1", "8">> \in DOMAIN http_errorPages
    /\ DOMAIN ErrorPages = BuiltInCodes \cup {418}
    /\ ~ErrorPages[404].IsDefault
    /\ x.status = 404

\* C20: every entry of the redirect table that startup builds has a code in
\* 300..399, for every configuration the builder accepts: 301 when none is
\* configured, the configured integer converted to uint otherwise.
C20_RedirectCodes ==
    Started =>
        \A k \in DOMAIN redirects :
            /\ ~redirects[k].Code.wrapped
            /\ redirects[k].Code.val >= 300
            /\ redirects[k].Code.val <= 399

\* the configuration has no error: every configured redirect code is an
\* int in 300..399 and every key of http.errorPages is a status code
ValidConfiguration ==
    /\ \A k \in DOMAIN http_redirects :
          http_redirects[k].hasCode =>
              /\ http_redirects[k].isInt
              /\ http_redirects[k].code >= 300
              /\ http_redirects[k].code <= 399
    /\ \A k \in DOMAIN http_errorPages :
          /\ ~Atoi(k).err
          /\ ValidStatus(Atoi(k).val)

\* C21: a configuration error (a malformed redirect code, or an
\* error-page key that is no valid status code) is fatal at startup: the
\* handler is registered, and a request served, only under a configuration
\* without such an error.
C21_FatalConfiguration ==
    Serving => ValidConfiguration

\* C26: once startup is over, no key of the route table begins with "/",
\* whatever the controller configuration and whatever the customization
\* function returns.
C26_RouteKeys ==
    Serving => \A k \in DOMAIN routerMap : ~HasPrefix(k, <<"/">>)

\* the template of the model is missing from the template root or fails
RenderFails(m) ==
    \/ m.Template \in failingTemplates
    \/ IF useEmbedded THEN (templatesDirectory \o m.Template) \notin templates
       ELSE m.Template \notin templatesDirFS

\* C22: Model.Render returns one of two shapes: when the template fails to
\* compile or execute, a ProcessingError with ResponseCode 500, a nil body
\* and code 0; otherwise no error, an empty redirect URL, a body that is not
\* nil, the bound ResponseCode (200 when it is 0) and the bound ContentType
\* (text/html when it is empty).
C22_RenderShapes ==
    phase = "rendered" =>
        LET m == routerMap[Page]
            h == x.handled
        IN  IF RenderFails(m)
            THEN /\ h.controllerError = [isNil |-> FALSE, ResponseCode |-> 500]
                 /\ h.b.isNil
                 /\ h.code = 0
            ELSE /\ h.controllerError.isNil
                 /\ h.redirectUrl = << >>
                 /\ ~h.b.isNil
                 /\ h.code = (IF m.ResponseCode = 0 THEN 200 ELSE m.ResponseCode)
                 /\ h.contentType =
                       (IF m.ContentType = << >> THEN <<"text/html">> ELSE m.ContentType)

C22_Witness ==
    /\ phase = "rendered"
    /\ routerMap[Page].ResponseCode = 201
    /\ routerMap[Page].ContentType = <<"application/json">>
    /\ x.handled.code = 201
    /\ x.handled.contentType = <<"application/json">>
    /\ x.handled.b = [isNil |-> FALSE, bytes |-> <<"rendered", "about", ".gohtml">>]
    /\ x.handled.controllerError.isNil

C22_WitnessFailure ==
    /\ phase = "rendered"
    /\ routerMap[Page].Template = <<"bad", ".gohtml">>
    /\ x.handled.controllerError.ResponseCode = 500
    /\ x.handled.b.isNil

\* the credentials the password file admits
ValidLogins ==
    { [ok |-> TRUE, u |-> <<"alice">>, p |-> <<"secret">>],
      [ok |-> TRUE, u |-> <<"carol">>, p |-> <<"pw">>] }

\* C23: the handler BasicAuth wraps is invoked only for a request with basic
\* credentials whose username and password are not blank, whose username
\* is in the credential table loaded from the password file and whose
\* password matches the stored hash; every other request, also while the
\* file cannot be opened or when the table is empty, gets 401 with a
\* WWW-Authenticate header and the wrapped handler is not invoked.
C23_BasicAuth ==
    \A i \in GateRequests :
        gate[i].pc = "done" =>
            /\ gate[i].invoked =>
                  /\ passwordFile.kind = "file"
                  /\ gate[i].auth \in ValidLogins
                  /\ gate[i].status # 401
            /\ ~gate[i].invoked =>
                  /\ gate[i].status = 401
                  /\ "WWW-Authenticate" \in DOMAIN gate[i].header

C23_Witness ==
    \E i, j \in GateRequests :
        /\ gate[i].pc = "done"
        /\ gate[i].invoked
        /\ gate[i].auth.u = <<"carol">>
        /\ gate[j].pc = "done"
        /\ ~gate[j].invoked
        /\ gate[j].auth.u = <<"carol">>
        /\ gate[j].auth.p = <<"secret">>
        /\ gate[j].status = 401

C23_WitnessMissing ==
    \E i \in GateRequests :
        /\ gate[i].pc = "done"
        /\ gate[i].auth.u = <<"alice">>
        /\ gate[i].auth.p = <<"secret">>
        /\ gate[i].status = 401
        /\ passwordFile.kind = "missing"
        /\ ~bah.Loaded

\* C25: however the requests to the gate interleave, the credential table
\* is populated by at most one load of the password file, no request
\* writes or replaces it while another reads it, and once Loaded is true
\* neither Loaded nor Credentials changes again.
C25_SingleLoad ==
    [][/\ bah'.loads <= 1
       /\ phase' # "exited"
       /\ bah.Loaded => (bah'.Loaded /\ bah'.Credentials = bah.Credentials)]_vars

\* C24: for a request whose path is none of /healthz, /ready, /metrics the
\* access-log wrapper writes exactly one log record and makes exactly two
\* metric observations (one gauge, one summary), after the inner handler
\* has returned and with the recorded status code; for the three paths it
\* writes none; in both cases the inner handler is invoked exactly once.
C24_AccessLog ==
    Responded =>
        /\ Invocations("ServeHTTP") = 1
        /\ IF req.Path \in {<<"/", "healthz">>, <<"/", "ready">>, <<"/", "metrics">>}
           THEN x.log = << >> /\ x.metrics = << >>
           ELSE /\ Len(x.log) = 1
                /\ x.log[1].status = x.lrw.statusCode
                /\ Len(x.metrics) = 2
                /\ x.metrics[1].metric = "RequestDurationGauge"
                /\ x.metrics[2].metric = "RequestDurationSummary"
                /\ x.metrics[1].code = Itoa(x.lrw.statusCode)
                /\ x.metrics[2].code = Itoa(x.lrw.statusCode)
                /\ x.returned = x.now

\* the events that are attributes set on the dispatcher's span
SpanAttributes ==
    {"resource", "redirect", "static-file", "controller-error", "handler", "response"}

\* C27: the span the dispatcher opens is ended only after the request's
\* terminal emission: every attribute the dispatcher sets on it is set
\* while it is open, so no attribute is set after span.End().
C27_SpanOpen ==
    Responded =>
        \A i, j \in 1..Len(x.events) :
            (x.events[i] = "span.End" /\ x.events[j] \in SpanAttributes) => j < i

=============================================================================
